---- MODULE Spec2Model ----
(***************************************************************************)
(* Environmental dashboard (final.py, test.py): the elapsed-time          *)
(* extrapolation of daily totals, the CSV loader with its tolerant date   *)
(* parsing, the one-day cache of the loaded total, and the refresh loop.  *)
(*                                                                         *)
(* Python floats are IEEE-754 doubles.  They are modelled bit for bit for *)
(* non-negative finite values: a double is a 53-bit significand, kept as  *)
(* a little-endian sequence of 14-bit limbs, and a binary exponent; the   *)
(* products and quotients are rounded to nearest, ties to even, as the    *)
(* hardware rounds them.                                                   *)
(***************************************************************************)
EXTENDS Integers, Sequences, FiniteSets, TLC

(***************************************************************************)
(* Natural numbers of any size: little-endian limbs, no leading zero limb *)
(***************************************************************************)
LimbBits == 14
LimbBase == 128 * 128
MantBits == 53

RECURSIVE Pow2From(_)
Pow2From(n) == IF n = 0 THEN 1 ELSE 2 * Pow2From(n - 1)

Pow2Table == [n \in 0..30 |-> Pow2From(n)]

Pow2(n) == Pow2Table[n]

RECURSIVE BNorm(_)
BNorm(a) ==
    IF a = <<>> THEN <<>>
    ELSE IF a[Len(a)] = 0 THEN BNorm(SubSeq(a, 1, Len(a) - 1))
    ELSE a

RECURSIVE BFromInt(_)
BFromInt(n) ==
    IF n = 0 THEN <<>> ELSE <<n % LimbBase>> \o BFromInt(n \div LimbBase)

Limb(a, i) == IF i >= 1 /\ i <= Len(a) THEN a[i] ELSE 0

Min2(i, j) == IF i <= j THEN i ELSE j

\* -1, 0 or 1 as a < b, a = b, a > b (both normalised)
RECURSIVE BCmpFrom(_, _, _)
BCmpFrom(a, b, i) ==
    IF i = 0 THEN 0
    ELSE IF a[i] < b[i] THEN -1
    ELSE IF a[i] > b[i] THEN 1
    ELSE BCmpFrom(a, b, i - 1)

BCmp(a, b) ==
    IF Len(a) < Len(b) THEN -1
    ELSE IF Len(a) > Len(b) THEN 1
    ELSE BCmpFrom(a, b, Len(a))

RECURSIVE BAddFrom(_, _, _, _)
BAddFrom(a, b, i, carry) ==
    IF i > Len(a) /\ i > Len(b)
    THEN IF carry = 0 THEN <<>> ELSE <<carry>>
    ELSE CHOOSE v \in {<<s % LimbBase>> \o BAddFrom(a, b, i + 1, s \div LimbBase) :
                       s \in {Limb(a, i) + Limb(b, i) + carry}} : TRUE

BAdd(a, b) == BAddFrom(a, b, 1, 0)

\* a - b for a >= b
RECURSIVE BSubFrom(_, _, _, _)
BSubFrom(a, b, i, borrow) ==
    IF i > Len(a) THEN <<>>
    ELSE CHOOSE v \in {IF d < 0
                       THEN <<d + LimbBase>> \o BSubFrom(a, b, i + 1, 1)
                       ELSE <<d>> \o BSubFrom(a, b, i + 1, 0) :
                       d \in {a[i] - Limb(b, i) - borrow}} : TRUE

BSub(a, b) == BNorm(BSubFrom(a, b, 1, 0))

\* the k-th column of the schoolbook product: sum of a[i] * b[k + 1 - i]
RECURSIVE BColumn(_, _, _, _)
BColumn(a, b, k, i) ==
    IF i > Len(a) \/ i > k THEN 0
    ELSE Limb(a, i) * Limb(b, k + 1 - i) + BColumn(a, b, k, i + 1)

\* a column holds at most 4 limb products here, so that with the carry of
\* the column before it stays below 2^31
RECURSIVE BMulFrom(_, _, _, _)
BMulFrom(a, b, k, carry) ==
    IF k > Len(a) + Len(b)
    THEN IF carry = 0 THEN <<>> ELSE BFromInt(carry)
    ELSE CHOOSE v \in {<<t % LimbBase>> \o BMulFrom(a, b, k + 1, t \div LimbBase) :
                       t \in {BColumn(a, b, k, 1) + carry}} : TRUE

BMul(a, b) ==
    IF a = <<>> \/ b = <<>> THEN <<>> ELSE BNorm(BMulFrom(a, b, 1, 0))

RECURSIVE IntBitLen(_)
IntBitLen(n) == IF n = 0 THEN 0 ELSE 1 + IntBitLen(n \div 2)

BBitLen(a) ==
    IF a = <<>> THEN 0 ELSE (Len(a) - 1) * LimbBits + IntBitLen(a[Len(a)])

\* bit i (0 = least significant) of a
BBit(a, i) == (Limb(a, (i \div LimbBits) + 1) \div Pow2(i % LimbBits)) % 2

\* a * 2^s for 0 <= s < LimbBits
RECURSIVE BShlBitsFrom(_, _, _, _)
BShlBitsFrom(a, s, i, carry) ==
    IF i > Len(a) THEN IF carry = 0 THEN <<>> ELSE <<carry>>
    ELSE CHOOSE w \in {<<v % LimbBase>> \o BShlBitsFrom(a, s, i + 1, v \div LimbBase) :
                       v \in {a[i] * Pow2(s) + carry}} : TRUE

RECURSIVE ZeroLimbs(_)
ZeroLimbs(n) == IF n = 0 THEN <<>> ELSE <<0>> \o ZeroLimbs(n - 1)

\* a * 2^k
BShl(a, k) ==
    IF a = <<>> THEN <<>>
    ELSE ZeroLimbs(k \div LimbBits) \o BShlBitsFrom(a, k % LimbBits, 1, 0)

\* floor(a / 2^s) for 0 <= s < LimbBits
RECURSIVE BShrBitsFrom(_, _, _)
BShrBitsFrom(a, s, i) ==
    IF i > Len(a) THEN <<>>
    ELSE <<(a[i] \div Pow2(s)) + (Limb(a, i + 1) % Pow2(s)) * Pow2(LimbBits - s)>>
         \o BShrBitsFrom(a, s, i + 1)

\* floor(a / 2^k)
BShr(a, k) ==
    IF k \div LimbBits >= Len(a) THEN <<>>
    ELSE BNorm(BShrBitsFrom(SubSeq(a, (k \div LimbBits) + 1, Len(a)),
                            k % LimbBits, 1))

\* some bit of a below bit k is set
BLowBitsSet(a, k) == BShl(BShr(a, k), k) # BNorm(a)

\* a * d for one limb d
RECURSIVE BMulLimbFrom(_, _, _, _)
BMulLimbFrom(a, d, i, carry) ==
    IF i > Len(a) THEN IF carry = 0 THEN <<>> ELSE <<carry>>
    ELSE CHOOSE w \in {<<v % LimbBase>> \o BMulLimbFrom(a, d, i + 1, v \div LimbBase) :
                       v \in {a[i] * d + carry}} : TRUE

BMulLimb(a, d) == IF d = 0 THEN <<>> ELSE BMulLimbFrom(a, d, 1, 0)

\* the largest d with b * d <= r, at or below the estimate d
RECURSIVE BDigitFrom(_, _, _)
BDigitFrom(r, b, d) ==
    IF BCmp(BMulLimb(b, d), r) <= 0 THEN d ELSE BDigitFrom(r, b, d - 1)

\* floor(r * LimbBase^n / b) and whether a remainder is left, for r < b and
\* b with its top limb at least LimbBase / 2: schoolbook long division, one
\* limb of the quotient per step, the limb estimated from the leading limbs
\* of the remainder and of b (at most 2 too large) and then corrected
RECURSIVE BDivFrom(_, _, _, _)
BDivFrom(r, b, q, n) ==
    IF n = 0 THEN [quot |-> BNorm(q), inexact |-> r # <<>>]
    ELSE CHOOSE v \in
           {BDivFrom(nx.r, b, nx.q, n - 1) :
            nx \in {[r |-> BSub(st.r1, BMulLimb(b, st.d)), q |-> <<st.d>> \o q] :
            st \in {[r1 |-> r1,
                     d  |-> BDigitFrom(r1, b,
                              Min2(LimbBase - 1,
                                   (Limb(r1, Len(b) + 1) * LimbBase + Limb(r1, Len(b)))
                                   \div b[Len(b)]))] :
                    r1 \in {IF r = <<>> THEN <<>> ELSE <<0>> \o r}}}} : TRUE

\* limbs of the quotient kept before rounding
DivLimbs == 5

\* floor(a * LimbBase^DivLimbs / b) for 53-bit a and b: both are scaled to
\* bring the top limb of b to at least LimbBase / 2
BDivScaled(a1, b1, ge) ==
    CHOOSE v \in {[quot    |-> IF ge THEN BAdd(d.quot, BShl(<<1>>, DivLimbs * LimbBits))
                                ELSE d.quot,
                   inexact |-> d.inexact] :
                  d \in {BDivFrom(IF ge THEN BSub(a1, b1) ELSE a1, b1, <<>>,
                                  DivLimbs)}} : TRUE

BDiv(a, b) ==
    CHOOSE v \in {BDivScaled(sc.a, sc.b, BCmp(sc.a, sc.b) >= 0) :
                  sc \in {[a |-> BShl(a, 4 * LimbBits - MantBits),
                           b |-> BShl(b, 4 * LimbBits - MantBits)]}} : TRUE

(***************************************************************************)
(* Doubles: [m, e] is m * 2^e with 2^52 <= m < 2^53, or m = <<>> for 0.0. *)
(* Exponent overflow and subnormals cannot occur for the magnitudes of    *)
(* this program (1e-7 .. 1e15) and are not modelled.                      *)
(***************************************************************************)
FZero == [m |-> <<>>, e |-> 0]

IsZero(fa) == fa.m = <<>>

\* the double nearest to n * 2^ex (or to a value just above it when sticky),
\* ties to even
FRoundShifted(n, q, s, ex, sticky) ==
    CHOOSE v \in {IF BBitLen(q1) > MantBits
                  THEN [m |-> BShr(q1, 1), e |-> ex + s + 1]
                  ELSE [m |-> q1, e |-> ex + s] :
                  q1 \in {IF BBit(n, s - 1) = 1
                             /\ (sticky \/ BLowBitsSet(n, s - 1) \/ BBit(q, 0) = 1)
                          THEN BAdd(q, <<1>>) ELSE q}} : TRUE

FRoundLen(n, len, ex, sticky) ==
    IF len = 0 THEN FZero
    ELSE IF len <= MantBits
    THEN [m |-> BShl(n, MantBits - len), e |-> ex - (MantBits - len)]
    ELSE CHOOSE v \in {FRoundShifted(n, q, len - MantBits, ex, sticky) :
                       q \in {BShr(n, len - MantBits)}} : TRUE

FRound(n, ex, sticky) ==
    CHOOSE v \in {FRoundLen(nn, BBitLen(nn), ex, sticky) : nn \in {n}} : TRUE

\* float(n) for an int 0 <= n < 2^31 (exact)
FromInt(n) == FRound(BFromInt(n), 0, FALSE)

\* TLC passes operator arguments unevaluated; binding them through a
\* one-element set evaluates each operand once, before the operation
FMulOf(fa, fb) ==
    IF IsZero(fa) \/ IsZero(fb) THEN FZero
    ELSE FRound(BMul(fa.m, fb.m), fa.e + fb.e, FALSE)

\* fa * fb
FMul(fa, fb) == CHOOSE v \in {FMulOf(a, b) : a \in {fa}, b \in {fb}} : TRUE


FDivOf(fa, fb) ==
    IF IsZero(fa) THEN FZero
    ELSE CHOOSE v \in {FRound(d.quot, fa.e - fb.e - DivLimbs * LimbBits,
                               d.inexact) : d \in {BDiv(fa.m, fb.m)}} : TRUE

\* fa / fb for fb # 0 (Python raises ZeroDivisionError on fb = 0: see Quot)
FDiv(fa, fb) == CHOOSE v \in {FDivOf(a, b) : a \in {fa}, b \in {fb}} : TRUE

\* a decimal literal num / den, e.g. 437.16 = Dec(43716, 100): the literal is
\* the double nearest to the decimal, which is the correctly rounded quotient
Dec(num, den) == FDiv(FromInt(num), FromInt(den))

\* fa + fb: the exact sum, rounded once
FAddOf(fa, fb) ==
    IF IsZero(fa) THEN fb
    ELSE IF IsZero(fb) THEN fa
    ELSE IF fa.e >= fb.e
    THEN FRound(BAdd(BShl(fa.m, fa.e - fb.e), fb.m), fb.e, FALSE)
    ELSE FRound(BAdd(BShl(fb.m, fb.e - fa.e), fa.m), fa.e, FALSE)

FAdd(fa, fb) == CHOOSE v \in {FAddOf(a, b) : a \in {fa}, b \in {fb}} : TRUE

FLt(fa, fb) ==
    IF IsZero(fb) THEN FALSE
    ELSE IF IsZero(fa) THEN TRUE
    ELSE fa.e < fb.e \/ (fa.e = fb.e /\ BCmp(fa.m, fb.m) < 0)

FLe(fa, fb) == fa = fb \/ FLt(fa, fb)


(***************************************************************************)
(* Constants of the program                                                *)
(***************************************************************************)
SECONDS_PER_DAY == 24 * 60 * 60
UPDATE_INTERVAL_SEC == 2

TOTAL_DAILY_HA == Dec(43716, 100)
HA_PER_SECOND == FDiv(TOTAL_DAILY_HA, FromInt(SECONDS_PER_DAY))

TOTAL_DAILY_PLASTIC_KG == FromInt(1260273973)
PLASTIC_KG_PER_SECOND == FDiv(TOTAL_DAILY_PLASTIC_KG, FromInt(SECONDS_PER_DAY))

TOTAL_DAILY_OCEAN_PLASTIC_KG == FromInt(30136986)
OCEAN_PLASTIC_KG_PER_SECOND ==
    FDiv(TOTAL_DAILY_OCEAN_PLASTIC_KG, FromInt(SECONDS_PER_DAY))

TOTAL_DAILY_MICROPLASTIC_MG == Dec(7140, 10)
MICROPLASTIC_MG_PER_SECOND ==
    FDiv(TOTAL_DAILY_MICROPLASTIC_MG, FromInt(SECONDS_PER_DAY))

TOTAL_DAILY_ACRES_LOST == FromInt(202513)
ACRES_PER_SECOND == FDiv(TOTAL_DAILY_ACRES_LOST, FromInt(SECONDS_PER_DAY))

\* test.py only
GREAT_PYRAMID_WEIGHT_METRIC_TONS == FromInt(5750000)
WHITE_HOUSE_AREA_HA == Dec(73, 10)

(***************************************************************************)
(* Calendar dates and the wall clock of TZ = America/Los_Angeles.          *)
(* The real-time clock counts seconds from 2025-01-01 00:00:00 PST.  In    *)
(* 2025 the zone is on daylight time (one hour ahead of PST) from          *)
(* 9 March 02:00 PST until 2 November 02:00 PDT.                           *)
(***************************************************************************)
DATASET_YEAR == 2024
ClockYear == DATASET_YEAR + 1

IsLeap(y) == (y % 4 = 0 /\ y % 100 # 0) \/ y % 400 = 0

DaysInMonth(y, m) ==
    IF m = 2 THEN (IF IsLeap(y) THEN 29 ELSE 28)
    ELSE IF m \in {4, 6, 9, 11} THEN 30 ELSE 31

RECURSIVE DaysBeforeMonth(_, _)
DaysBeforeMonth(y, m) ==
    IF m = 1 THEN 0 ELSE DaysBeforeMonth(y, m - 1) + DaysInMonth(y, m - 1)

\* day number within the year, 0 for 1 January
YearDay(d) == DaysBeforeMonth(d.year, d.month) + d.day - 1

RECURSIVE DateFrom(_, _, _)
DateFrom(y, m, yday) ==
    IF yday < DaysInMonth(y, m)
    THEN [year |-> y, month |-> m, day |-> yday + 1]
    ELSE DateFrom(y, m + 1, yday - DaysInMonth(y, m))

\* date(y, m, d) is a date: what datetime.date and strptime accept
ValidDate(y, m, d) ==
    /\ y >= 1 /\ y <= 9999
    /\ m >= 1 /\ m <= 12
    /\ d >= 1 /\ d <= DaysInMonth(y, m)

DstStart == YearDay([year |-> ClockYear, month |-> 3, day |-> 9]) * SECONDS_PER_DAY
            + 2 * 3600
DstEnd   == YearDay([year |-> ClockYear, month |-> 11, day |-> 2]) * SECONDS_PER_DAY
            + 3600

\* seconds the zone's wall clock is ahead of PST at real time t
DstShift(t) == IF t >= DstStart /\ t < DstEnd THEN 3600 ELSE 0

\* datetime.now(TZ) at real time t: the wall-clock fields; ts keeps the instant
DatetimeNow(t) ==
    LET wall == t + DstShift(t)
        tod  == wall % SECONDS_PER_DAY
        d    == DateFrom(ClockYear, 1, wall \div SECONDS_PER_DAY)
    IN  [year |-> d.year, month |-> d.month, day |-> d.day,
         hour |-> tod \div 3600, minute |-> (tod % 3600) \div 60,
         second |-> tod % 60, ts |-> t]

\* now.date()
DateOf(dt) == [year |-> dt.year, month |-> dt.month, day |-> dt.day]

\* the real time at which the zone's wall clock first shows midnight of dt's date
MidnightInstant(dt) ==
    LET naive == YearDay(DateOf(dt)) * SECONDS_PER_DAY
    IN  IF naive - 3600 >= DstStart /\ naive - 3600 < DstEnd
        THEN naive - 3600 ELSE naive

\* now.replace(hour=0, minute=0, second=0, microsecond=0): the fields are
\* overwritten, tzinfo is kept
ReplaceMidnight(dt) ==
    [dt EXCEPT !.hour = 0, !.minute = 0, !.second = 0, !.ts = MidnightInstant(dt)]

\* (a - b).total_seconds() for two datetimes that share one tzinfo object:
\* Python subtracts the wall-clock fields and ignores the UTC offsets
DatetimeSub(a, b) ==
    (YearDay(DateOf(a)) - YearDay(DateOf(b))) * SECONDS_PER_DAY
    + (a.hour - b.hour) * 3600 + (a.minute - b.minute) * 60
    + (a.second - b.second)

Min(a, b) == IF a <= b THEN a ELSE b
Max(a, b) == IF a >= b THEN a ELSE b

\* a reading of elapsed time taken from the instants, without the clamp
time_elapsed_seconds_instants(now) == now.ts - ReplaceMidnight(now).ts

time_elapsed_seconds(now) ==
    LET midnight == ReplaceMidnight(now)
        elapsed  == DatetimeSub(now, midnight)
    IN  Max(0, Min(elapsed, SECONDS_PER_DAY))

(***************************************************************************)
(* Accrued quantities.  Each *_so_far(now) of the program is its rate      *)
(* expression applied to time_elapsed_seconds(now); the rate expressions   *)
(* are kept apart so that they can be evaluated at any elapsed time.       *)
(***************************************************************************)
hectares_at(elapsed) == FMul(HA_PER_SECOND, FromInt(elapsed))
plastic_at(elapsed) == FMul(PLASTIC_KG_PER_SECOND, FromInt(elapsed))
ocean_plastic_at(elapsed) == FMul(OCEAN_PLASTIC_KG_PER_SECOND, FromInt(elapsed))
microplastic_at(elapsed) == FMul(MICROPLASTIC_MG_PER_SECOND, FromInt(elapsed))
acres_at(elapsed) == FMul(ACRES_PER_SECOND, FromInt(elapsed))

hectares_lost_so_far(now) == hectares_at(time_elapsed_seconds(now))
plastic_produced_so_far(now) == plastic_at(time_elapsed_seconds(now))
ocean_plastic_entered_so_far(now) == ocean_plastic_at(time_elapsed_seconds(now))
microplastic_ingested_so_far(now) == microplastic_at(time_elapsed_seconds(now))
acres_lost_so_far(now) == acres_at(time_elapsed_seconds(now))

\* total_today * (elapsed_seconds / SECONDS_PER_DAY)
emissions_at(total_today, elapsed) ==
    FMul(total_today, FDiv(FromInt(elapsed), FromInt(SECONDS_PER_DAY)))

\* final.py repeats the elapsed-time computation inline
emissions_elapsed(now) ==
    LET midnight == ReplaceMidnight(now)
        elapsed_seconds == DatetimeSub(now, midnight)
    IN  Max(0, Min(elapsed_seconds, SECONDS_PER_DAY))

emissions_so_far(now, total_today) ==
    emissions_at(total_today, emissions_elapsed(now))


(***************************************************************************)
(* The CSV loader.  A date string is the sequence of its characters.       *)
(***************************************************************************)
Digits == <<"0", "1", "2", "3", "4", "5", "6", "7", "8", "9">>

IsDigit(c) == \E k \in 1..Len(Digits) : Digits[k] = c

DigitVal(c) == (CHOOSE k \in 1..Len(Digits) : Digits[k] = c) - 1

AllDigits(f) == \A k \in 1..Len(f) : IsDigit(f[k])

RECURSIVE IntOf(_)
IntOf(f) ==
    IF f = <<>> THEN 0
    ELSE 10 * IntOf(SubSeq(f, 1, Len(f) - 1)) + DigitVal(f[Len(f)])

\* the fields of str between the separators sep
RECURSIVE SplitFrom(_, _, _)
SplitFrom(str, sep, field) ==
    IF str = <<>> THEN <<field>>
    ELSE IF Head(str) = sep
    THEN <<field>> \o SplitFrom(Tail(str), sep, <<>>)
    ELSE SplitFrom(Tail(str), sep, Append(field, Head(str)))

Split(str, sep) == SplitFrom(str, sep, <<>>)

\* None, and the failure of a parse
NoDate == [year |-> 0, month |-> 0, day |-> 0]

\* one strptime directive against one field: %m is 1[0-2]|0[1-9]|[1-9],
\* %d is 3[01]|[12]\d|0[1-9]|[1-9], %Y is \d\d\d\d
MatchesDirective(directive, f) ==
    /\ f # <<>>
    /\ AllDigits(f)
    /\ CASE directive = "m" -> Len(f) <= 2 /\ IntOf(f) >= 1 /\ IntOf(f) <= 12
         [] directive = "d" -> Len(f) <= 2 /\ IntOf(f) >= 1 /\ IntOf(f) <= 31
         [] directive = "Y" -> Len(f) = 4

\* the field of the directive in a format of three directives
FieldOf(fmt, fields, directive) ==
    IntOf(fields[CHOOSE k \in 1..3 : fmt[k] = directive])

\* datetime.strptime(date_str, fmt).date() for fmt = %a/%b/%c given as the
\* directives <<a, b, c>>; NoDate stands for the ValueError
strptime(date_str, fmt) ==
    LET fields == Split(date_str, "/")
    IN  IF /\ Len(fields) = 3
           /\ \A k \in 1..3 : MatchesDirective(fmt[k], fields[k])
           /\ ValidDate(FieldOf(fmt, fields, "Y"), FieldOf(fmt, fields, "m"),
                        FieldOf(fmt, fields, "d"))
        THEN [year  |-> FieldOf(fmt, fields, "Y"),
              month |-> FieldOf(fmt, fields, "m"),
              day   |-> FieldOf(fmt, fields, "d")]
        ELSE NoDate

\* pd.to_datetime(date_str).date() on the strings of the model: an ISO date
\* YYYY-MM-DD is parsed; the others, which are no dates in any notation,
\* raise, and NoDate stands for the exception
to_datetime(date_str) ==
    LET fields == Split(date_str, "-")
    IN  IF /\ Len(fields) = 3
           /\ \A k \in 1..3 : fields[k] # <<>> /\ AllDigits(fields[k])
           /\ Len(fields[1]) = 4 /\ Len(fields[2]) = 2 /\ Len(fields[3]) = 2
           /\ ValidDate(IntOf(fields[1]), IntOf(fields[2]), IntOf(fields[3]))
        THEN [year |-> IntOf(fields[1]), month |-> IntOf(fields[2]),
              day |-> IntOf(fields[3])]
        ELSE NoDate

\* ("%m/%d/%Y", "%d/%m/%Y")
DateFormats == << <<"m", "d", "Y">>, <<"d", "m", "Y">> >>

\* the same formats tried in the other order
DateFormatsSwapped == << <<"d", "m", "Y">>, <<"m", "d", "Y">> >>

\* for fmt in formats: try: return strptime(...) except: continue
RECURSIVE TryFormats(_, _)
TryFormats(date_str, formats) ==
    IF formats = <<>> THEN NoDate
    ELSE LET got == strptime(date_str, Head(formats))
         IN  IF got # NoDate THEN got ELSE TryFormats(date_str, Tail(formats))

parse_date_with(date_str, formats) ==
    LET got == TryFormats(date_str, formats)
    IN  IF got # NoDate THEN got ELSE to_datetime(date_str)

\* a parser that reads the formats in the other order
parse_date_swapped(date_str) == parse_date_with(date_str, DateFormatsSwapped)

\* a parser that never gives up: a string no notation accepts becomes the
\* first day of the data
parse_date_defaulting(date_str) ==
    LET got == parse_date_with(date_str, DateFormats)
    IN  IF got # NoDate THEN got
        ELSE [year |-> DATASET_YEAR, month |-> 3, day |-> 4]

parse_date(date_str) == parse_date_with(date_str, DateFormats)

RECURSIVE SumCo2(_)
SumCo2(df) ==
    IF df = <<>> THEN FZero
    ELSE FAdd(SumCo2(SubSeq(df, 1, Len(df) - 1)), df[Len(df)].co2_mt)

\* datetime.now(TZ).date().replace(year=2024)
today_2024_at(t) == [DateOf(DatetimeNow(t)) EXCEPT !.year = DATASET_YEAR]

HasDate(r) == r.date # NoDate

\* df["date"].apply(parse_date), then dropna(subset=["date"])
ParsedRows(rows) ==
    SelectSeq([k \in 1..Len(rows) |->
                  [date |-> parse_date(rows[k].date), co2_mt |-> rows[k].co2_mt]],
              HasDate)

\* a loader that sums every parsed row, whatever its date
load_unfiltered(file, t) ==
    IF ~file.readable THEN [raised |-> TRUE, value |-> FZero]
    ELSE [raised |-> FALSE,
          value  |-> FMul(SumCo2(ParsedRows(file.rows)), FromInt(1000000))]

\* load_total_today_emissions() run at real time t on the file at FILE_PATH:
\* read_csv raises when the file cannot be read
load_total_today_emissions(file, t) ==
    IF ~file.readable THEN [raised |-> TRUE, value |-> FZero]
    ELSE LET df         == ParsedRows(file.rows)
             today_2024 == today_2024_at(t)
             IsToday(r) == r.date = today_2024
             today_data == SelectSeq(df, IsToday)
             total_today_mt == SumCo2(today_data)
         IN  [raised |-> FALSE,
              value  |-> FMul(total_today_mt, FromInt(1000000))]


(***************************************************************************)
(* The body of the refresh loop: the values of one tick.  `divisors` are   *)
(* the denominators the body divides by on this pass (Python raises        *)
(* ZeroDivisionError on a zero one), `ratios` names the comparison ratios  *)
(* it computes and `checked` those it computes under a test of the         *)
(* denominator.                                                            *)
(***************************************************************************)
\* x / y where y # 0; the value when y = 0 is never used: the tick raises
Quot(fa, fb) == IF IsZero(fb) THEN FZero ELSE FDiv(fa, fb)

\* ((microplastic / 5000) / (elapsed / SECONDS_PER_DAY * 7)) * 100
credit_card_ratio(microplastic, elapsed) ==
    FMul(Quot(Quot(microplastic, FromInt(5000)),
              FMul(Quot(FromInt(elapsed), FromInt(SECONDS_PER_DAY)), FromInt(7))),
         FromInt(100))

credit_card_divisors(elapsed) ==
    {FromInt(5000), FromInt(SECONDS_PER_DAY),
     FMul(Quot(FromInt(elapsed), FromInt(SECONDS_PER_DAY)), FromInt(7))}

\* the credit-card ratio computed at any elapsed time, zero included
credit_card_unguarded(microplastic, elapsed) ==
    [value    |-> credit_card_ratio(microplastic, elapsed),
     divisors |-> credit_card_divisors(elapsed)]

\* ... if elapsed > 0 else 0
credit_card_equiv_of(microplastic, elapsed) ==
    IF elapsed > 0
    THEN [value    |-> credit_card_ratio(microplastic, elapsed),
          divisors |-> credit_card_divisors(elapsed)]
    ELSE [value |-> FZero, divisors |-> {}]

\* final.py, lines 114-136
LoopBodyFinal(now, total_today) ==
    LET elapsed == time_elapsed_seconds(now)
        ha_lost == hectares_lost_so_far(now)
        plastic_produced == plastic_produced_so_far(now)
        ocean_plastic == ocean_plastic_entered_so_far(now)
        microplastic == microplastic_ingested_so_far(now)
        credit == credit_card_equiv_of(microplastic, elapsed)
        acres_lost == acres_lost_so_far(now)
        co2_emitted == emissions_so_far(now, total_today)
    IN  [elapsed          |-> elapsed,
         ha_lost          |-> ha_lost,
         ha_to_washdc     |-> FMul(Quot(ha_lost, FromInt(1500)), FromInt(365)),
         plastic_produced |-> plastic_produced,
         plastic_to_cars  |-> Quot(plastic_produced, FromInt(1500)),
         ocean_plastic    |-> ocean_plastic,
         ocean_to_statues |-> Quot(ocean_plastic, FromInt(204116)),
         microplastic     |-> microplastic,
         credit_card_equiv |-> credit.value,
         acres_lost       |-> acres_lost,
         acres_to_football |-> Quot(acres_lost, Dec(132, 100)),
         co2_emitted      |-> co2_emitted,
         pyramids         |-> Quot(co2_emitted, FromInt(5750000)),
         divisors |-> {FromInt(1500), FromInt(204116), Dec(132, 100),
                       FromInt(5750000), FromInt(SECONDS_PER_DAY)}
                      \cup credit.divisors,
         ratios   |-> {"ha_to_washdc", "plastic_to_cars", "ocean_to_statues",
                       "credit_card_equiv", "acres_to_football", "pyramids"},
         checked  |-> {"credit_card_equiv"}]

\* test.py, lines 213-234
LoopBodyTest(now, total_today) ==
    LET elapsed_seconds == time_elapsed_seconds(now)
        ha_lost == hectares_lost_so_far(now)
        microplastic == microplastic_ingested_so_far(now)
        credit == credit_card_equiv_of(microplastic, elapsed_seconds)
        acres_lost == acres_lost_so_far(now)
        co2_emitted ==
            emissions_at(total_today, time_elapsed_seconds(now))
        white_house == FLt(FZero, WHITE_HOUSE_AREA_HA)
        pyramid == FLt(FZero, GREAT_PYRAMID_WEIGHT_METRIC_TONS)
    IN  [elapsed          |-> elapsed_seconds,
         running_hours    |-> elapsed_seconds \div 3600,
         ha_lost          |-> ha_lost,
         white_house_comparison |->
             IF white_house THEN Quot(ha_lost, WHITE_HOUSE_AREA_HA) ELSE FZero,
         plastic_produced |-> plastic_produced_so_far(now),
         ocean_plastic    |-> ocean_plastic_entered_so_far(now),
         microplastic     |-> microplastic,
         credit_card_equiv |-> credit.value,
         acres_lost       |-> acres_lost,
         acres_to_football |-> Quot(acres_lost, Dec(132, 100)),
         co2_emitted      |-> co2_emitted,
         pyramid_comparison |->
             IF pyramid THEN Quot(co2_emitted, GREAT_PYRAMID_WEIGHT_METRIC_TONS)
             ELSE FZero,
         divisors |-> {Dec(132, 100), FromInt(SECONDS_PER_DAY)}
                      \cup (IF white_house THEN {WHITE_HOUSE_AREA_HA} ELSE {})
                      \cup (IF pyramid THEN {GREAT_PYRAMID_WEIGHT_METRIC_TONS}
                            ELSE {})
                      \cup credit.divisors,
         ratios   |-> {"white_house_comparison", "credit_card_equiv",
                       "acres_to_football", "pyramid_comparison"},
         checked  |-> {"white_house_comparison", "credit_card_equiv",
                       "pyramid_comparison"}]

LoopBody(app, now, total_today) ==
    IF app = "final" THEN LoopBodyFinal(now, total_today)
    ELSE LoopBodyTest(now, total_today)

\* the tick raised ZeroDivisionError
Raised(tick) == \E d \in tick.divisors : IsZero(d)


(***************************************************************************)
(* get_emissions_total under @st.cache_data(ttl=SECONDS_PER_DAY): the      *)
(* entry is kept with the time it was computed at and is served while it   *)
(* is younger than the ttl.  `date` and `failed` record, for the claims,   *)
(* the target date the entry was computed for and whether the load raised. *)
(***************************************************************************)
EmptyCache ==
    [stored |-> FALSE, value |-> FZero, ts |-> 0, date |-> NoDate, failed |-> FALSE]

\* the cached call computed anew at real time t
Recompute(file, t) ==
    LET res == load_total_today_emissions(file, t)
        ret == IF res.raised THEN FZero ELSE res.value
    IN  [cache   |-> [stored |-> TRUE, value |-> ret, ts |-> t,
                      date |-> today_2024_at(t), failed |-> res.raised],
         value   |-> ret,
         invoked |-> TRUE,
         raised  |-> res.raised]

\* an entry that is still served when exactly ttl seconds old
get_emissions_total_late(c, file, t) ==
    IF c.stored /\ t - c.ts <= SECONDS_PER_DAY
    THEN [cache |-> c, value |-> c.value, invoked |-> FALSE, raised |-> FALSE]
    ELSE Recompute(file, t)

\* a failed load that is answered with 0 but not stored
get_emissions_total_retry(c, file, t) ==
    IF c.stored /\ t - c.ts < SECONDS_PER_DAY
    THEN [cache |-> c, value |-> c.value, invoked |-> FALSE, raised |-> FALSE]
    ELSE LET got == Recompute(file, t)
         IN  IF got.raised THEN [got EXCEPT !.cache = c] ELSE got

get_emissions_total(c, file, t) ==
    IF c.stored /\ t - c.ts < SECONDS_PER_DAY
    THEN [cache |-> c, value |-> c.value, invoked |-> FALSE, raised |-> FALSE]
    ELSE Recompute(file, t)

(***************************************************************************)
(* The dashboard process                                                   *)
(***************************************************************************)
VARIABLES
    clock,                  \* real time, seconds since 2025-01-01 00:00 PST
    steps,                  \* sleeps and reconnections so far
    pc,                     \* where the script run stands
    app,                    \* the script that runs: "final" or "test"
    file,                   \* the file at FILE_PATH: [readable, rows]
    cache,                  \* the st.cache_data entry of get_emissions_total
    getLog,                 \* history: the calls of get_emissions_total
    total_today_emissions,  \* main's local
    totalMeta,              \* history: when and for which date it was computed
    now,                    \* the loop's local
    shown,                  \* the values of the last tick of this run
    sample,                 \* input of the function under study
    result                  \* its output

vars == <<clock, steps, pc, app, file, cache, getLog, total_today_emissions,
          totalMeta, now, shown, sample, result>>

\* bounds of the model
MaxSteps == 3
MaxRows == 3
RateSamples == 12
SweepDays == 3

Apps == {"final", "test"}

Chars(a, b, c, d, e, f, g, h, i, j) == <<a, b, c, d, e, f, g, h, i, j>>

S_03_04_2024 == Chars("0", "3", "/", "0", "4", "/", "2", "0", "2", "4")
S_03_05_2024 == Chars("0", "3", "/", "0", "5", "/", "2", "0", "2", "4")
S_04_03_2024 == Chars("0", "4", "/", "0", "3", "/", "2", "0", "2", "4")
S_13_03_2024 == Chars("1", "3", "/", "0", "3", "/", "2", "0", "2", "4")
S_13_13_2024 == Chars("1", "3", "/", "1", "3", "/", "2", "0", "2", "4")
S_iso_03_04  == Chars("2", "0", "2", "4", "-", "0", "3", "-", "0", "4")
S_not_a_date == Chars("n", "o", "t", "-", "a", "-", "d", "a", "t", "e")
S_4_3_2024   == <<"4", "/", "3", "/", "2", "0", "2", "4">>

Row(date_str, co2_mt) == [date |-> date_str, co2_mt |-> co2_mt]

\* the file the dashboard process reads
DatasetRows ==
    << Row(S_03_04_2024, Dec(15, 10)), Row(S_03_04_2024, Dec(25, 10)),
       Row(S_03_05_2024, Dec(1000, 10)), Row(S_not_a_date, Dec(1000, 10)) >>

\* the real time at which the wall clock shows tod seconds past midnight of
\* the date, on daylight time or not
WallInstant(month, day, tod, dst) ==
    YearDay([year |-> ClockYear, month |-> month, day |-> day]) * SECONDS_PER_DAY
    + tod - (IF dst THEN 3600 ELSE 0)

\* two seconds before: the repeated hour of 2 November, the end of that day,
\* the end of 4 March, the skipped hour of 9 March
StartInstants ==
    { WallInstant(11, 2, 2 * 3600 - UPDATE_INTERVAL_SEC, TRUE),
      WallInstant(11, 2, SECONDS_PER_DAY - UPDATE_INTERVAL_SEC, FALSE),
      WallInstant(3, 4, SECONDS_PER_DAY - UPDATE_INTERVAL_SEC, FALSE),
      WallInstant(3, 9, 2 * 3600 - UPDATE_INTERVAL_SEC, FALSE) }

\* how long the server waits for the next session
IdleSeconds == {0, SECONDS_PER_DAY - UPDATE_INTERVAL_SEC}

NoTime == [year |-> 0, month |-> 0, day |-> 0, hour |-> 0, minute |-> 0,
           second |-> 0, ts |-> 0]
NoTick == [elapsed |-> -1]
NoMeta == [at |-> 0, date |-> NoDate, failed |-> FALSE]
Unused == "unused"

Init ==
    /\ clock \in StartInstants
    /\ steps = 0
    /\ pc = "start"
    /\ app \in Apps
    /\ file = [readable |-> TRUE, rows |-> DatasetRows]
    /\ cache = EmptyCache
    /\ getLog = <<>>
    /\ total_today_emissions = FZero
    /\ totalMeta = NoMeta
    /\ now = NoTime
    /\ shown = NoTick
    /\ sample = Unused
    /\ result = Unused

\* main() up to the loop: lines 98-111.  The file is readable or not when
\* the loader opens it.
Main(readable) ==
    /\ pc = "start"
    /\ \E got \in {get_emissions_total(cache, [file EXCEPT !.readable = readable],
                                       clock)} :
           /\ \/ got.invoked /\ file' = [file EXCEPT !.readable = readable]
              \/ ~got.invoked /\ readable /\ file' = file
           /\ cache' = got.cache
           /\ total_today_emissions' = got.value
           /\ totalMeta' = [at |-> got.cache.ts, date |-> got.cache.date,
                            failed |-> got.cache.failed]
           /\ getLog' = Append(getLog, [at |-> clock, invoked |-> got.invoked,
                                        raised |-> got.raised, value |-> got.value])
    /\ pc' = "loop"
    /\ UNCHANGED <<clock, steps, app, now, shown, sample, result>>

\* one pass of the loop body: lines 114-186
Tick ==
    /\ pc = "loop"
    /\ now' = DatetimeNow(clock)
    /\ shown' = LoopBody(app, now', total_today_emissions)
    /\ pc' = IF Raised(shown') THEN "crashed" ELSE "sleep"
    /\ UNCHANGED <<clock, steps, app, file, cache, getLog, total_today_emissions,
                   totalMeta, sample, result>>

\* time.sleep(UPDATE_INTERVAL_SEC): line 189
Sleep ==
    /\ pc = "sleep"
    /\ steps < MaxSteps
    /\ clock' = clock + UPDATE_INTERVAL_SEC
    /\ steps' = steps + 1
    /\ pc' = "loop"
    /\ UNCHANGED <<app, file, cache, getLog, total_today_emissions, totalMeta,
                   now, shown, sample, result>>

\* the session ends and, idle seconds later, the next one runs the script
\* from its first line again (lines 192-193); the cache outlives the run
Reconnect(idle) ==
    /\ pc \in {"loop", "sleep"}
    /\ steps < MaxSteps
    /\ clock' = clock + idle
    /\ steps' = steps + 1
    /\ pc' = "start"
    /\ now' = NoTime
    /\ shown' = NoTick
    /\ UNCHANGED <<app, file, cache, getLog, total_today_emissions, totalMeta,
                   sample, result>>

Next ==
    \/ \E readable \in BOOLEAN : Main(readable)
    \/ Tick
    \/ Sleep
    \/ \E idle \in IdleSeconds : Reconnect(idle)

Spec == Init /\ [][Next]_vars

(***************************************************************************)
(* The loader as a function of the file and of the day it runs on          *)
(***************************************************************************)
RowChoices ==
    { Row(S_03_04_2024, Dec(15, 10)), Row(S_03_04_2024, Dec(25, 10)),
      Row(S_03_05_2024, Dec(1000, 10)), Row(S_04_03_2024, Dec(1000, 10)),
      Row(S_13_03_2024, Dec(15, 10)), Row(S_iso_03_04, Dec(25, 10)),
      Row(S_not_a_date, Dec(1000, 10)), Row(S_13_13_2024, Dec(15, 10)) }

RECURSIVE SeqsUpTo(_, _)
SeqsUpTo(S, n) ==
    IF n = 0 THEN {<<>>}
    ELSE LET shorter == SeqsUpTo(S, n - 1)
         IN  shorter \cup {Append(q, x) : q \in shorter, x \in S}

\* noon of 4 March and of 5 March
LoadInstants ==
    { WallInstant(3, 4, SECONDS_PER_DAY \div 2, FALSE),
      WallInstant(3, 5, SECONDS_PER_DAY \div 2, FALSE) }

\* every one of the three attempts of parse_date fails on the string
Rejected(date_str) ==
    /\ strptime(date_str, DateFormats[1]) = NoDate
    /\ strptime(date_str, DateFormats[2]) = NoDate
    /\ to_datetime(date_str) = NoDate

KeepsRow(r) == ~Rejected(r.date)

InitLoad ==
    /\ clock \in LoadInstants
    /\ file \in {[readable |-> TRUE, rows |-> rows] :
                  rows \in SeqsUpTo(RowChoices, MaxRows)}
    /\ steps = 0
    /\ pc = "load"
    /\ app = Unused
    /\ cache = EmptyCache
    /\ getLog = <<>>
    /\ total_today_emissions = FZero
    /\ totalMeta = NoMeta
    /\ now = NoTime
    /\ shown = NoTick
    /\ sample = Unused
    /\ result = Unused

\* load_total_today_emissions() on the file, readable or not when read_csv
\* opens it; beside its outcome the result keeps what parse_date made of
\* each row and the outcome on the file without its rejected rows
Load(readable) ==
    /\ pc = "load"
    /\ file' = [file EXCEPT !.readable = readable]
    /\ \E got \in {load_total_today_emissions(file', clock)} :
       \E without \in {load_total_today_emissions(
                           [file' EXCEPT !.rows = SelectSeq(file.rows, KeepsRow)],
                           clock)} :
           result' = [raised  |-> got.raised,
                      value   |-> got.value,
                      parsed  |-> [k \in 1..Len(file.rows) |->
                                      parse_date(file.rows[k].date)],
                      without |-> without]
    /\ pc' = "loaded"
    /\ UNCHANGED <<clock, steps, app, cache, getLog, total_today_emissions,
                   totalMeta, now, shown, sample>>

NextLoad == \E readable \in BOOLEAN : Load(readable)

SpecLoad == InitLoad /\ [][NextLoad]_vars

(***************************************************************************)
(* The elapsed-time computations over the days around both clock changes   *)
(***************************************************************************)
SweepStep == 60 * 60

\* midnight and the last second of the day before each clock change
SweepStarts ==
    { WallInstant(3, 8, 0, FALSE), WallInstant(3, 8, SECONDS_PER_DAY - 1, FALSE),
      WallInstant(11, 1, 0, TRUE), WallInstant(11, 1, SECONDS_PER_DAY - 1, TRUE) }

ElapsedOf(t) ==
    [elapsed |-> time_elapsed_seconds(DatetimeNow(t)),
     inline  |-> emissions_elapsed(DatetimeNow(t))]

InitClock ==
    /\ clock \in SweepStarts
    /\ steps = 0
    /\ pc = "clock"
    /\ now = DatetimeNow(clock)
    /\ result = ElapsedOf(clock)
    /\ app = Unused
    /\ file = [readable |-> TRUE, rows |-> <<>>]
    /\ cache = EmptyCache
    /\ getLog = <<>>
    /\ total_today_emissions = FZero
    /\ totalMeta = NoMeta
    /\ shown = NoTick
    /\ sample = Unused

\* the reference instant an hour later
Sweep ==
    /\ pc = "clock"
    /\ steps < SweepDays * 24
    /\ clock' = clock + SweepStep
    /\ steps' = steps + 1
    /\ now' = DatetimeNow(clock')
    /\ result' = ElapsedOf(clock')
    /\ UNCHANGED <<pc, app, file, cache, getLog, total_today_emissions,
                   totalMeta, shown, sample>>

NextClock == Sweep

SpecClock == InitClock /\ [][NextClock]_vars

\* C3: at every reference instant, days of a clock change included, the
\* value of time_elapsed_seconds and the elapsed value computed inside
\* emissions_so_far lie in [0, 86400].
C3_ElapsedInRange ==
    pc = "clock" =>
        /\ result.elapsed \in 0..SECONDS_PER_DAY
        /\ result.inline \in 0..SECONDS_PER_DAY

\* the last hour of the 25-hour day: more than 86400 s after its midnight
C3_Witness ==
    /\ pc = "clock"
    /\ now.month = 11 /\ now.day = 2
    /\ now.ts - MidnightInstant(now) > SECONDS_PER_DAY
    /\ result.elapsed = SECONDS_PER_DAY - 1
    /\ result.inline = SECONDS_PER_DAY - 1

(***************************************************************************)
(* The accrued quantities as functions of the daily total and of elapsed   *)
(* seconds                                                                 *)
(***************************************************************************)
Totals == {FZero, FromInt(4000000), FromInt(100000000), Dec(43716, 100)}

ElapsedSamples ==
    {0, 1, SECONDS_PER_DAY - 1, SECONDS_PER_DAY}
    \cup {k * (SECONDS_PER_DAY \div RateSamples) : k \in 1..RateSamples}

AccruedAt(total, elapsed) ==
    [hectares      |-> hectares_at(elapsed),
     plastic       |-> plastic_at(elapsed),
     ocean_plastic |-> ocean_plastic_at(elapsed),
     microplastic  |-> microplastic_at(elapsed),
     acres         |-> acres_at(elapsed),
     emissions     |-> emissions_at(total, elapsed)]

DailyTotals(total) ==
    [hectares      |-> TOTAL_DAILY_HA,
     plastic       |-> TOTAL_DAILY_PLASTIC_KG,
     ocean_plastic |-> TOTAL_DAILY_OCEAN_PLASTIC_KG,
     microplastic  |-> TOTAL_DAILY_MICROPLASTIC_MG,
     acres         |-> TOTAL_DAILY_ACRES_LOST,
     emissions     |-> total]

Quantities == DOMAIN DailyTotals(FZero)

InitRate ==
    /\ sample \in {sm \in [total : Totals, e1 : ElapsedSamples,
                            e2 : ElapsedSamples] : sm.e1 <= sm.e2}
    /\ result = Unused
    /\ pc = "rate"
    /\ clock = 0
    /\ steps = 0
    /\ app = Unused
    /\ file = [readable |-> TRUE, rows |-> <<>>]
    /\ cache = EmptyCache
    /\ getLog = <<>>
    /\ total_today_emissions = FZero
    /\ totalMeta = NoMeta
    /\ now = NoTime
    /\ shown = NoTick

\* every accrued quantity at the two elapsed times of the sample
Accrue ==
    /\ pc = "rate"
    /\ result' = [first  |-> AccruedAt(sample.total, sample.e1),
                  second |-> AccruedAt(sample.total, sample.e2)]
    /\ pc' = "rated"
    /\ UNCHANGED <<clock, steps, app, file, cache, getLog, total_today_emissions,
                   totalMeta, now, shown, sample>>

NextRate == Accrue

SpecRate == InitRate /\ [][NextRate]_vars

AccruedContract(q) ==
    pc = "rated" =>
        /\ sample.e1 = 0 => result.first[q] = FZero
        /\ sample.e2 = SECONDS_PER_DAY
               => result.second[q] = DailyTotals(sample.total)[q]
        /\ FLe(result.first[q], result.second[q])
        /\ FLe(FZero, result.first[q])
        /\ FLe(result.second[q], DailyTotals(sample.total)[q])

March4 == [year |-> DATASET_YEAR, month |-> 3, day |-> 4]
March13 == [year |-> DATASET_YEAR, month |-> 3, day |-> 13]

\* the reading the ordered conventions prescribe for a string
FirstMatch(date_str) ==
    IF strptime(date_str, <<"m", "d", "Y">>) # NoDate
    THEN strptime(date_str, <<"m", "d", "Y">>)
    ELSE IF strptime(date_str, <<"d", "m", "Y">>) # NoDate
    THEN strptime(date_str, <<"d", "m", "Y">>)
    ELSE to_datetime(date_str)

Loaded == pc = "loaded"

\* C5: parse_date is first-match-wins over month/day/year, then
\* day/month/year, then the generic parser; "03/04/2024" is always read as
\* 4 March 2024, never as 3 April.
C5_FirstMatchWins ==
    Loaded =>
        \A k \in 1..Len(file.rows) :
            /\ result.parsed[k] = FirstMatch(file.rows[k].date)
            /\ file.rows[k].date = S_03_04_2024 => result.parsed[k] = March4

\* the three conventions each decide one row of the file
C5_Witness ==
    /\ Loaded
    /\ \E i, j, k \in 1..Len(file.rows) :
           /\ file.rows[i].date = S_03_04_2024 /\ result.parsed[i] = March4
           /\ file.rows[j].date = S_13_03_2024 /\ result.parsed[j] = March13
           /\ file.rows[k].date = S_iso_03_04 /\ result.parsed[k] = March4

\* the quantities of the rows dated target, added in file order
RECURSIVE SumMatching(_, _)
SumMatching(rows, target) ==
    IF rows = <<>> THEN FZero
    ELSE LET r == rows[Len(rows)]
             before == SumMatching(SubSeq(rows, 1, Len(rows) - 1), target)
         IN  IF FirstMatch(r.date) = target THEN FAdd(before, r.co2_mt)
             ELSE before

ExampleRows ==
    << Row(S_03_04_2024, Dec(15, 10)), Row(S_03_04_2024, Dec(25, 10)),
       Row(S_03_05_2024, Dec(1000, 10)) >>

\* C6: the load returns 1,000,000 times the sum of the quantity over exactly
\* the rows whose normalized date is the target date: 1.5 and 2.5 on the
\* target date and 100.0 on another give 4,000,000, and no matching row
\* gives 0.
C6_LoadSumsTargetRows ==
    (Loaded /\ ~result.raised) =>
        /\ result.value = FMul(SumMatching(file.rows, today_2024_at(clock)),
                              FromInt(1000000))
        /\ (file.rows = ExampleRows /\ today_2024_at(clock) = March4)
               => result.value = FromInt(4000000)
        /\ (\A k \in 1..Len(file.rows) :
                FirstMatch(file.rows[k].date) # today_2024_at(clock))
               => result.value = FZero

C6_Witness ==
    /\ Loaded /\ ~result.raised
    /\ file.rows = ExampleRows /\ today_2024_at(clock) = March4
    /\ result.value = FromInt(4000000)

\* C7: a row whose date string all three attempts reject is dropped: the
\* load does not raise because of it and returns the total of the file
\* without that row, whatever the row's quantity.
C7_RejectedRowsDropped ==
    Loaded =>
        /\ file.readable => ~result.raised
        /\ result.raised = result.without.raised
        /\ result.value = result.without.value

\* rejected rows of two quantities beside a row of the target date
C7_Witness ==
    /\ Loaded /\ ~result.raised /\ result.value # FZero
    /\ \E i, j \in 1..Len(file.rows) :
           /\ file.rows[i] = Row(S_not_a_date, Dec(1000, 10))
           /\ file.rows[j] = Row(S_13_13_2024, Dec(15, 10))

(***************************************************************************)
(* Properties of the cached total                                          *)
(***************************************************************************)
\* the calls before the j-th that ran the loader
LoadsBefore(j) == {i \in 1..(j - 1) : getLog[i].invoked}

LastLoadBefore(j) ==
    CHOOSE i \in LoadsBefore(j) : \A k \in LoadsBefore(j) : k <= i

\* C1: a call of get_emissions_total runs the loader if and only if no value
\* is stored yet or at least 86400 seconds have passed since the stored
\* computation; calls inside one TTL window are served the stored value, and
\* a reload replaces the stored value and its timestamp.
C1_LoaderIffExpired ==
    /\ \A j \in 1..Len(getLog) :
           /\ getLog[j].invoked <=>
                  \/ LoadsBefore(j) = {}
                  \/ getLog[j].at - getLog[LastLoadBefore(j)].at >= SECONDS_PER_DAY
           /\ ~getLog[j].invoked =>
                  getLog[j].value = getLog[LastLoadBefore(j)].value
    /\ Len(getLog) > 0 =>
           /\ cache.stored
           /\ cache.ts = getLog[LastLoadBefore(Len(getLog) + 1)].at
           /\ cache.value = getLog[LastLoadBefore(Len(getLog) + 1)].value

\* a load, a call served inside its window, and the reload of a call made
\* exactly 86400 s after the load, with another value
C1_Witness ==
    /\ Len(getLog) = 3
    /\ getLog[1].invoked /\ ~getLog[2].invoked /\ getLog[3].invoked
    /\ getLog[2].at > getLog[1].at
    /\ getLog[3].at - getLog[1].at = SECONDS_PER_DAY
    /\ getLog[3].value # getLog[1].value
    /\ cache.ts = getLog[3].at /\ cache.value = getLog[3].value

\* C2: when the loader fails, the call returns 0, the 0 is stored, and every
\* later call within 86400 seconds of the attempt returns 0 without running
\* the loader again.
C2_FailedLoadCached ==
    /\ \A j \in 1..Len(getLog) :
           (getLog[j].invoked /\ getLog[j].raised) =>
               /\ getLog[j].value = FZero
               /\ \A k \in (j + 1)..Len(getLog) :
                      getLog[k].at - getLog[j].at < SECONDS_PER_DAY
                          => ~getLog[k].invoked /\ getLog[k].value = FZero
    /\ cache.failed => cache.stored /\ cache.value = FZero

\* a failed load and, later in its window, a call served the stored 0
C2_Witness ==
    /\ Len(getLog) >= 2
    /\ getLog[1].invoked /\ getLog[1].raised
    /\ ~getLog[2].invoked /\ getLog[2].value = FZero
    /\ getLog[2].at > getLog[1].at
    /\ total_today_emissions = FZero

(***************************************************************************)
(* Properties of the refresh loop                                          *)
(***************************************************************************)
\* a tick of this run has been shown
Ticked == shown.elapsed >= 0

PyramidRatio == IF app = "final" THEN shown.pyramids ELSE shown.pyramid_comparison

C9_TotalIsOfTheTick ==
    Ticked =>
        /\ now.ts - totalMeta.at < SECONDS_PER_DAY
        /\ totalMeta.date = [DateOf(now) EXCEPT !.year = DATASET_YEAR]

\* a tick on the day after the one the total was computed for
C9_Witness ==
    /\ Ticked
    /\ totalMeta.date = March4
    /\ DateOf(now) = [year |-> ClockYear, month |-> 3, day |-> 5]
    /\ shown.co2_emitted = emissions_at(FromInt(4000000), shown.elapsed)

\* C10: from one tick to the next of the same local date, with real time
\* advancing, the elapsed seconds and the shown accrued values do not
\* decrease; days of a clock change included.
C10_NoDecreaseWithinDate ==
    [][(Ticked /\ shown'.elapsed >= 0 /\ now'.ts > now.ts
        /\ DateOf(now') = DateOf(now))
       => /\ shown'.elapsed >= shown.elapsed
          /\ FLe(shown.ha_lost, shown'.ha_lost)
          /\ FLe(shown.acres_lost, shown'.acres_lost)
          /\ FLe(shown.co2_emitted, shown'.co2_emitted)]_vars

\* the tick at 01:00:00 of the repeated hour of 2 November
C10_Witness ==
    /\ Ticked
    /\ now.month = 11 /\ now.day = 2 /\ now.hour = 1
    /\ now.ts >= DstEnd
    /\ shown.elapsed = 3600

(***************************************************************************)
(* The credit-card equivalent as a function of elapsed seconds             *)
(***************************************************************************)
\* credit_card_equiv of the tick whose elapsed time is the given one
CreditCardAt(elapsed) ==
    credit_card_equiv_of(microplastic_at(elapsed), elapsed).value

InitCredit ==
    /\ sample \in {sm \in [e1 : ElapsedSamples, e2 : ElapsedSamples] :
                       sm.e1 <= sm.e2}
    /\ result = Unused
    /\ pc = "credit"
    /\ clock = 0
    /\ steps = 0
    /\ app = Unused
    /\ file = [readable |-> TRUE, rows |-> <<>>]
    /\ cache = EmptyCache
    /\ getLog = <<>>
    /\ total_today_emissions = FZero
    /\ totalMeta = NoMeta
    /\ now = NoTime
    /\ shown = NoTick

\* the ratio at the two elapsed times of the sample
Credit ==
    /\ pc = "credit"
    /\ result' = [first  |-> CreditCardAt(sample.e1),
                  second |-> CreditCardAt(sample.e2)]
    /\ pc' = "credited"
    /\ UNCHANGED <<clock, steps, app, file, cache, getLog, total_today_emissions,
                   totalMeta, now, shown, sample>>

NextCredit == Credit

SpecCredit == InitCredit /\ [][NextCredit]_vars

\* C11: the credit-card equivalent takes one and the same value at every
\* elapsed time in (0, 86400], is 0 exactly at elapsed = 0, and never grows
\* over the day.
C11_CreditCardConstant ==
    pc = "credited" =>
        /\ result.first = FZero <=> sample.e1 = 0
        /\ result.second = FZero <=> sample.e2 = 0
        /\ sample.e1 > 0 => result.first = result.second
        /\ sample.e1 > 0 => FLe(result.second, result.first)

\* two elapsed times of one day with the later ratio the larger
C11_Witness ==
    /\ pc = "credited"
    /\ sample.e1 = 1 /\ sample.e2 = SECONDS_PER_DAY
    /\ FLt(result.first, result.second)

====
